---- MODULE Spec2Model ----
(***************************************************************************)
(* Model of the three command-line utilities of ecs-cost-analysis:         *)
(*   ecs_unmanaged_services.py  (ARN normaliser, unmanaged-service flow)   *)
(*   cf_unique_descriptions.py  (template hashing and grouping)            *)
(*   ecs_cost_analysis.py       (capacity / usage arithmetic)              *)
(*                                                                         *)
(* Strings are sequences of tokens.  A token is a run of characters that   *)
(* holds none of the delimiters the code splits or strips on; the          *)
(* delimiters ":" "/" " " and the JSON punctuation are tokens of their     *)
(* own, so split, strip, concatenation and substring search act on the     *)
(* model's strings as Python's act on the text.                            *)
(***************************************************************************)
EXTENDS Integers, Sequences, FiniteSets, TLC

VARIABLES
    pc,
    \* normalize_ecs_service_arn applied to an input, and to its own result
    service_arn, fallback_cluster_name, normalized, renormalized,
    \* ecs_unmanaged_services.py main(): its locals
    cluster_name, service_arns, next_token, batch_i, service_launch_types,
    ec2_services, stack_arns, stack_i, cfn_ec2_services,
    cfn_ec2_services_in_cluster, unmanaged_ec2_services,
    \* the account main() reads: the cluster's services, the number of stack
    \* summaries list_stacks has returned, and for every stack main() has asked
    \* about, its resources and whether the call failed
    ecs_services, stacks_listed, visited,
    \* cf_unique_descriptions.py get_stacks_grouped_by_desc_and_template():
    \* its arguments and locals
    ignore_string, contains_string, ignore_stack_prefixes,
    desc_hash_to_stacks, total_matched,
    \* the stacks describe_stacks has given so far, each with the hash computed
    \* for it (None when a filter skipped it first)
    seen_stacks,
    \* ecs_cost_analysis.py main(): its arguments and locals
    instance_type, task_arns, tasks, largest_task, unique_values,
    container_instance_arns, container_instances,
    total_cpu, total_memory, used_cpu, used_memory, excess_cpu, excess_memory,
    savings,
    \* the cluster main() reads: its tasks and its container instances
    cluster_tasks, cluster_instances

normVars == <<service_arn, fallback_cluster_name, normalized, renormalized>>

unmanagedVars ==
    <<cluster_name, service_arns, next_token, batch_i, service_launch_types,
      ec2_services, stack_arns, stack_i, cfn_ec2_services,
      cfn_ec2_services_in_cluster, unmanaged_ec2_services,
      ecs_services, stacks_listed, visited>>

groupVars ==
    <<ignore_string, contains_string, ignore_stack_prefixes,
      desc_hash_to_stacks, total_matched, seen_stacks>>

costVars ==
    <<instance_type, task_arns, tasks, largest_task, unique_values,
      container_instance_arns, container_instances,
      total_cpu, total_memory, used_cpu, used_memory, excess_cpu, excess_memory,
      savings, cluster_tasks, cluster_instances>>

vars == <<pc, normVars, unmanagedVars, groupVars, costVars>>

----------------------------------------------------------------------------
(* Python string primitives on token sequences *)

\* str.split(sep): n occurrences of sep give n+1 parts, "" gives [""]
RECURSIVE Split(_, _)
Split(s, sep) ==
    IF s = <<>> THEN << <<>> >>
    ELSE LET rest == Split(Tail(s), sep) IN
         IF Head(s) = sep THEN << <<>> >> \o rest
         ELSE << <<Head(s)>> \o Head(rest) >> \o Tail(rest)

\* sep.join(parts)
RECURSIVE Join(_, _)
Join(parts, sep) ==
    IF parts = <<>> THEN <<>>
    ELSE IF Len(parts) = 1 THEN Head(parts)
    ELSE Head(parts) \o <<sep>> \o Join(Tail(parts), sep)

\* s.strip(): leading and trailing whitespace removed
RECURSIVE Strip(_)
Strip(s) ==
    IF s = <<>> THEN s
    ELSE IF Head(s) = " " THEN Strip(Tail(s))
    ELSE IF s[Len(s)] = " " THEN Strip(SubSeq(s, 1, Len(s) - 1))
    ELSE s

\* sub in s
Contains(sub, s) ==
    \E i \in 0..(Len(s) - Len(sub)) : SubSeq(s, i + 1, i + Len(sub)) = sub

\* s.startswith(prefix)
StartsWith(s, prefix) ==
    Len(prefix) <= Len(s) /\ SubSeq(s, 1, Len(prefix)) = prefix

\* Python's None, and the truth value of a string or list that may be None
None == <<"<None>">>

Truthy(x) == x # None /\ x # <<>>

Min(a, b) == IF a < b THEN a ELSE b

Range(f) == { f[i] : i \in DOMAIN f }

----------------------------------------------------------------------------
(* ecs_unmanaged_services.py: normalize_ecs_service_arn *)

\* the reconstruction with the cluster part of the path left out
LongArnDropsCluster(region, account_id, cluster_name_, service_name) ==
    <<"arn", ":", "aws", ":", "ecs", ":">> \o region \o <<":">> \o account_id
        \o <<":", "service", "/">> \o service_name

\* the f-string that rebuilds the long ARN
LongArn(region, account_id, cluster_name_, service_name) ==
    <<"arn", ":", "aws", ":", "ecs", ":">> \o region \o <<":">> \o account_id
        \o <<":", "service", "/">> \o cluster_name_ \o <<"/">> \o service_name

\* a normaliser that rebuilds a path of more than three parts from its first three
normalize_keeps_first_three(arn, fallback) ==
    LET parts == Split(arn, ":") IN
    IF Len(parts) < 6 THEN arn
    ELSE LET resource_parts == Split(parts[6], "/") IN
         IF Len(resource_parts) < 2 THEN arn
         ELSE IF resource_parts[1] # <<"service">> THEN arn
         ELSE IF Len(resource_parts) = 2
              THEN LongArn(parts[4], parts[5], fallback, resource_parts[2])
         ELSE LongArn(parts[4], parts[5], resource_parts[2], resource_parts[3])

normalize_ecs_service_arn(arn, fallback) ==
    LET parts == Split(arn, ":") IN
    IF Len(parts) < 6 THEN arn
    ELSE LET region == parts[4]
             account_id == parts[5]
             resource_part == parts[6]
             resource_parts == Split(resource_part, "/")
         IN
         IF Len(resource_parts) < 2 THEN arn
         ELSE IF resource_parts[1] # <<"service">> THEN arn
         ELSE IF Len(resource_parts) = 2
              THEN LongArn(region, account_id, fallback, resource_parts[2])
         ELSE IF Len(resource_parts) = 3
              THEN LongArn(region, account_id, resource_parts[2], resource_parts[3])
         ELSE arn

----------------------------------------------------------------------------
(* Inputs of the normaliser *)

MaxParts == 4
MaxExtra == 1

PartTokens == {"service", "MyCluster", "Foo"}

\* resource segments: 1..MaxParts slash-separated parts, each one token or empty
ResourceSegments ==
    UNION { { Join([i \in 1..n |-> IF f[i] = "" THEN <<>> ELSE <<f[i]>>], "/")
              : f \in [1..n -> PartTokens \cup {""}] }
            : n \in 1..MaxParts }

Partitions == {"aws", "aws-cn"}

\* the five segments before the resource, for each partition
Prefix(p) == << <<"arn">>, <<p>>, <<"ecs">>, <<"us-east-1">>, <<"123">> >>

\* ":"-joined strings of 1..(6 + MaxExtra) segments
ArnInputs ==
    { <<"not-an-arn">>, <<>> }
    \cup { Join(SubSeq(Prefix(p), 1, k), ":") : p \in Partitions, k \in 1..5 }
    \cup { Join(Prefix(p) \o <<r>> \o [i \in 1..e |-> <<"x">>], ":")
           : p \in Partitions, r \in ResourceSegments, e \in 0..MaxExtra }

\* --cluster: a cluster name, or (the ECS API takes both) a cluster ARN
ClusterArguments ==
    { <<"Bar">>, <<"MyCluster">>,
      <<"arn", ":", "aws", ":", "ecs", ":", "us-east-1", ":", "123", ":",
        "cluster", "/", "Bar">> }

NormInit ==
    /\ service_arn \in ArnInputs
    /\ fallback_cluster_name \in ClusterArguments
    /\ normalized = <<"<unset>">>
    /\ renormalized = <<"<unset>">>

NormIdle ==
    /\ service_arn = <<>>
    /\ fallback_cluster_name = <<>>
    /\ normalized = <<>>
    /\ renormalized = <<>>

\* norm_arn = normalize_ecs_service_arn(original_arn, cluster_name)
Normalize ==
    /\ pc = "norm_input"
    /\ normalized' = normalize_ecs_service_arn(service_arn, fallback_cluster_name)
    /\ pc' = "norm_once"
    /\ UNCHANGED <<service_arn, fallback_cluster_name, renormalized>>
    /\ UNCHANGED <<unmanagedVars, groupVars, costVars>>

\* the result normalised again with the same fallback
Renormalize ==
    /\ pc = "norm_once"
    /\ renormalized' = normalize_ecs_service_arn(normalized, fallback_cluster_name)
    /\ pc' = "norm_twice"
    /\ UNCHANGED <<service_arn, fallback_cluster_name, normalized>>
    /\ UNCHANGED <<unmanagedVars, groupVars, costVars>>

----------------------------------------------------------------------------
(* ecs_unmanaged_services.py: main *)

MaxStacks == 2

\* 'maxResults': 100 of list_services
maxResults == 100
BATCH_SIZE == 10

ServiceNames == <<"A", "B", "C">>

\* the ARN the APIs give a service: the long form, or the old short form
ServiceArnOf(cluster, name, short) ==
    <<"arn", ":", "aws", ":", "ecs", ":", "us-east-1", ":", "123", ":", "service", "/">>
        \o (IF short THEN <<>> ELSE <<cluster, "/">>) \o <<name>>

\* what a service of the inspected cluster may be: launchType EC2, FARGATE,
\* not reported ("<missing>"), or no such service ("<absent>")
LaunchOptions ==
    [ A |-> {"EC2", "FARGATE"},
      B |-> {"EC2", "<missing>", "<absent>"},
      C |-> {"EC2", "<absent>"} ]

RECURSIVE SelectPresent(_, _, _)
SelectPresent(launch, short, i) ==
    IF i > Len(ServiceNames) THEN <<>>
    ELSE LET n == ServiceNames[i] IN
         (IF launch[n] = "<absent>" THEN <<>>
          ELSE << [serviceArn |-> ServiceArnOf("X", n, short), name |-> n,
                   launchType |-> launch[n]] >>)
         \o SelectPresent(launch, short, i + 1)

\* the services of cluster X, in the order list_services gives them
EcsWorlds ==
    { SelectPresent(launch, short, 1) :
        launch \in [A : LaunchOptions.A, B : LaunchOptions.B, C : LaunchOptions.C],
        short \in BOOLEAN }

\* stack resources; cluster and name say which service a physical id stands for
ServiceResource(cluster, name, short) ==
    [ResourceType |-> "AWS::ECS::Service",
     PhysicalResourceId |-> ServiceArnOf(cluster, name, short),
     cluster |-> cluster, name |-> name]

BucketResource ==
    [ResourceType |-> "AWS::S3::Bucket", PhysicalResourceId |-> <<"bucket">>,
     cluster |-> "<none>", name |-> "<none>"]

ResourceCatalogue ==
    { ServiceResource("X", "A", FALSE), ServiceResource("X", "B", FALSE),
      ServiceResource("X", "C", FALSE), ServiceResource("X", "B", TRUE),
      ServiceResource("Y", "A", TRUE), ServiceResource("Y", "A", FALSE),
      BucketResource }

\* the StackResources of one stack
StackResourceSets ==
    { {} } \cup { {r} : r \in ResourceCatalogue }
    \cup { {ServiceResource("X", "B", FALSE), ServiceResource("X", "C", FALSE)},
           {ServiceResource("X", "A", FALSE), BucketResource} }

StackStatuses == {"CREATE_COMPLETE", "DELETE_COMPLETE"}

UnmanagedInit ==
    /\ cluster_name = <<"X">>
    /\ ecs_services \in EcsWorlds
    /\ service_arns = <<>>
    /\ next_token = None
    /\ batch_i = 0
    /\ service_launch_types = <<>>
    /\ ec2_services = {}
    /\ stack_arns = <<>>
    /\ stack_i = 0
    /\ cfn_ec2_services = {}
    /\ cfn_ec2_services_in_cluster = {}
    /\ unmanaged_ec2_services = {}
    /\ stacks_listed = 0
    /\ visited = <<>>

UnmanagedIdle ==
    /\ cluster_name = <<>>
    /\ ecs_services = <<>>
    /\ service_arns = <<>>
    /\ next_token = None
    /\ batch_i = 0
    /\ service_launch_types = <<>>
    /\ ec2_services = {}
    /\ stack_arns = <<>>
    /\ stack_i = 0
    /\ cfn_ec2_services = {}
    /\ cfn_ec2_services_in_cluster = {}
    /\ unmanaged_ec2_services = {}
    /\ stacks_listed = 0
    /\ visited = <<>>

\* 1. one turn of the list_services loop: a page of at most maxResults ARNs,
\*    with a nextToken when more are left
ListServices ==
    /\ pc = "list_services"
    /\ LET left == Len(ecs_services) - Len(service_arns) IN
       \E n \in (IF left = 0 THEN {0} ELSE 1..Min(maxResults, left)) :
          LET page == [i \in 1..n |-> ecs_services[Len(service_arns) + i].serviceArn]
              token == IF n < left THEN <<"token">> ELSE None
          IN /\ service_arns' = service_arns \o page
             /\ next_token' = token
             /\ pc' = IF token # None THEN "list_services" ELSE "describe_services"
    /\ UNCHANGED <<cluster_name, batch_i, service_launch_types, ec2_services,
                   stack_arns, stack_i, cfn_ec2_services,
                   cfn_ec2_services_in_cluster, unmanaged_ec2_services,
                   ecs_services, stacks_listed, visited>>
    /\ UNCHANGED <<normVars, groupVars, costVars>>

\* an ECS or CloudFormation call outside the try block raises: main() has no
\* handler and the process ends
ApiCallFails ==
    /\ pc \in {"list_services", "describe_services", "list_stacks"}
    /\ pc = "describe_services" => batch_i < Len(service_arns)
    /\ pc' = "aborted"
    /\ UNCHANGED <<unmanagedVars, groupVars, costVars>>
    /\ UNCHANGED <<normVars, groupVars, costVars>>

\* 2. one batch of describe_services
DescribeServices ==
    /\ pc = "describe_services"
    /\ batch_i < Len(service_arns)
    /\ LET batch == SubSeq(service_arns, batch_i + 1,
                           Min(batch_i + BATCH_SIZE, Len(service_arns)))
           described == { svc \in Range(ecs_services) : svc.serviceArn \in Range(batch) }
           old == service_launch_types
           known == { e[1] : e \in Range(old) }
       IN service_launch_types' =
            SelectSeq(old, LAMBDA e : e[1] \notin { svc.serviceArn : svc \in described })
            \o [i \in 1..Len(batch) |->
                  LET svc == CHOOSE x \in described : x.serviceArn = batch[i]
                  IN <<svc.serviceArn,
                       IF svc.launchType = "<missing>" THEN "UNKNOWN" ELSE svc.launchType>>]
    /\ batch_i' = batch_i + BATCH_SIZE
    /\ UNCHANGED <<cluster_name, service_arns, next_token, ec2_services,
                   stack_arns, stack_i, cfn_ec2_services,
                   cfn_ec2_services_in_cluster, unmanaged_ec2_services,
                   ecs_services, stacks_listed, visited>>
    /\ UNCHANGED <<pc, normVars, groupVars, costVars>>

\* 3. the EC2 services, normalised
Ec2Services(launch_types, cluster) ==
    { normalize_ecs_service_arn(e[1], cluster) :
        e \in { x \in Range(launch_types) : x[2] = "EC2" } }

FilterEc2 ==
    /\ pc = "describe_services"
    /\ batch_i >= Len(service_arns)
    /\ ec2_services' = Ec2Services(service_launch_types, cluster_name)
    /\ next_token' = None
    /\ pc' = "list_stacks"
    /\ UNCHANGED <<cluster_name, service_arns, batch_i, service_launch_types,
                   stack_arns, stack_i, cfn_ec2_services,
                   cfn_ec2_services_in_cluster, unmanaged_ec2_services,
                   ecs_services, stacks_listed, visited>>
    /\ UNCHANGED <<normVars, groupVars, costVars>>

\* 4. one turn of the list_stacks loop: the summaries of a page, those in
\*    DELETE_COMPLETE skipped
ListStacks ==
    /\ pc = "list_stacks"
    /\ \E n \in 0..(MaxStacks - stacks_listed) :
       \E status \in [1..n -> StackStatuses] :
       \E more \in (IF stacks_listed + n < MaxStacks THEN BOOLEAN ELSE {FALSE}) :
          LET kept == SelectSeq([i \in 1..n |-> stacks_listed + i],
                                LAMBDA id : status[id - stacks_listed] # "DELETE_COMPLETE")
          IN /\ stack_arns' = stack_arns \o kept
             /\ stacks_listed' = stacks_listed + n
             /\ next_token' = IF more THEN <<"token">> ELSE None
             /\ pc' = IF more THEN "list_stacks" ELSE "cfn_resources"
    /\ UNCHANGED <<cluster_name, service_arns, batch_i, service_launch_types,
                   ec2_services, stack_i, cfn_ec2_services,
                   cfn_ec2_services_in_cluster, unmanaged_ec2_services,
                   ecs_services, visited>>
    /\ UNCHANGED <<normVars, groupVars, costVars>>

\* the normalised ids of the AWS::ECS::Service resources of one response
ManagedIn(resources, cluster) ==
    { normalize_ecs_service_arn(r.PhysicalResourceId, cluster) :
        r \in { x \in resources : x.ResourceType = "AWS::ECS::Service" } }

\* 5. one turn of the stack loop, describe_stack_resources answering
DescribeStackResources ==
    /\ pc = "cfn_resources"
    /\ stack_i < Len(stack_arns)
    /\ \E resources \in StackResourceSets :
          /\ cfn_ec2_services' = cfn_ec2_services \cup ManagedIn(resources, cluster_name)
          /\ visited' = Append(visited, [StackId |-> stack_arns[stack_i + 1],
                                         failed |-> FALSE, StackResources |-> resources])
    /\ stack_i' = stack_i + 1
    /\ UNCHANGED <<cluster_name, service_arns, next_token, batch_i,
                   service_launch_types, ec2_services, stack_arns,
                   cfn_ec2_services_in_cluster, unmanaged_ec2_services,
                   ecs_services, stacks_listed>>
    /\ UNCHANGED <<pc, normVars, groupVars, costVars>>

\* a handler that lets the failure end the run
OnDescribeFailureAbort == "aborted"

\* except Exception: print the warning and go on with the next stack
OnDescribeFailure == "cfn_resources"

\* 5. one turn of the stack loop, describe_stack_resources raising
DescribeStackResourcesFails ==
    /\ pc = "cfn_resources"
    /\ stack_i < Len(stack_arns)
    /\ \E resources \in StackResourceSets :
          visited' = Append(visited, [StackId |-> stack_arns[stack_i + 1],
                                      failed |-> TRUE, StackResources |-> resources])
    /\ stack_i' = stack_i + 1
    /\ pc' = OnDescribeFailure
    /\ UNCHANGED <<cluster_name, service_arns, next_token, batch_i,
                   service_launch_types, ec2_services, stack_arns, cfn_ec2_services,
                   cfn_ec2_services_in_cluster, unmanaged_ec2_services,
                   ecs_services, stacks_listed>>
    /\ UNCHANGED <<normVars, groupVars, costVars>>

\* a difference taken the wrong way round
UnmanagedSwapped(ec2, cfn_in_cluster) == cfn_in_cluster \ ec2

\* 6. unmanaged_ec2_services = ec2_services - cfn_ec2_services_in_cluster
Unmanaged(ec2, cfn_in_cluster) == ec2 \ cfn_in_cluster

\* the end of the stack loop, the intersection, the difference and the report
Report ==
    /\ pc = "cfn_resources"
    /\ stack_i >= Len(stack_arns)
    /\ cfn_ec2_services_in_cluster' = cfn_ec2_services \cap ec2_services
    /\ unmanaged_ec2_services' =
          Unmanaged(ec2_services, cfn_ec2_services \cap ec2_services)
    /\ pc' = "done"
    /\ UNCHANGED <<cluster_name, service_arns, next_token, batch_i,
                   service_launch_types, ec2_services, stack_arns, stack_i,
                   cfn_ec2_services, ecs_services, stacks_listed, visited>>
    /\ UNCHANGED <<normVars, groupVars, costVars>>

----------------------------------------------------------------------------
(* cf_unique_descriptions.py *)

MaxGroupStacks == 2

\* for page in paginate(): for resource in page: ResourceType == AWS::ECS::Service
stack_has_ecs_service(resource_pages) ==
    \E p \in 1..Len(resource_pages) : \E r \in 1..Len(resource_pages[p]) :
        resource_pages[p][r] = "AWS::ECS::Service"

\* a dict is its items in insertion order, each <<key, value>>
KeyOrder == <<"a", "b">>

\* the items ordered by key, as sort_keys=True orders them
SortedItems(items) ==
    LET at(k) == CHOOSE i \in 1..Len(items) : items[i][1] = k
        present == SelectSeq(KeyOrder, LAMBDA k : \E i \in 1..Len(items) : items[i][1] = k)
    IN [n \in 1..Len(present) |-> items[at(present[n])]]

\* the text of a JSON object: {"k": v, ...} with the given separators
JsonObject(items, item_separator, key_separator) ==
    LET one(i) == <<"\"", items[i][1], "\"">> \o key_separator \o <<items[i][2]>>
        RECURSIVE from(_)
        from(i) == IF i > Len(items) THEN <<>>
                   ELSE IF i = Len(items) THEN one(i)
                   ELSE one(i) \o item_separator \o from(i + 1)
    IN <<"{">> \o from(1) \o <<"}">>

\* json.dumps(template_body, sort_keys=True), with the default separators
json_dumps_sort_keys(template_body) ==
    JsonObject(SortedItems(template_body), <<",", " ">>, <<":", " ">>)

\* a TemplateBody is a dict or a str
get_template_body_string(template_body) ==
    IF template_body.type = "dict"
    THEN json_dumps_sort_keys(template_body.value)
    ELSE template_body.value

\* SHA-256 taken as collision-free: the digest stands for exactly one text
compute_template_hash(template_str) == <<"sha256", template_str>>

\* strftime('%Y-%m-%d %H:%M:%S')
strftime(t) == <<t[1], " ", t[2]>>

\* the stacks of the account
StackNames ==
    { <<"dev", "-", "a">>, <<"prod", "-", "a">>, <<"prod", "-", "b">> }

Descriptions ==
    { None, <<" ", "api", " ">>, <<"old", " ", "api">> }

ResourcePageLists ==
    { << <<"AWS::S3::Bucket">> >>,
      << <<"AWS::S3::Bucket">>, <<"AWS::IAM::Role", "AWS::ECS::Service">> >> }

Dict(items) == [type |-> "dict", value |-> items]
Str(text) == [type |-> "str", value |-> text]

\* one template as dicts of either key order and as JSON texts, and another
TemplateBodies ==
    { Dict(<< <<"a", "1">>, <<"b", "2">> >>),
      Dict(<< <<"b", "2">>, <<"a", "1">> >>),
      Dict(<< <<"a", "1">> >>),
      Str(JsonObject(<< <<"a", "1">>, <<"b", "2">> >>, <<",", " ">>, <<":", " ">>)),
      Str(JsonObject(<< <<"b", "2">>, <<"a", "1">> >>, <<",">>, <<":">>)) }

\* a stack that was never updated has no LastUpdatedTime; a time is <<date, time>>
LastUpdatedTimeOf(name) ==
    IF name[1] = "dev" THEN None ELSE <<"2024-01-02", "03:04:05">>

Stacks ==
    { [StackName |-> n, Description |-> d, ResourcePages |-> r, TemplateBody |-> t,
       LastUpdatedTime |-> LastUpdatedTimeOf(n)]
      : n \in StackNames, d \in Descriptions, r \in ResourcePageLists,
        t \in TemplateBodies }

GroupInit ==
    /\ ignore_string \in { None, <<>>, <<"old">> }
    /\ contains_string \in { None, <<"b">> }
    /\ ignore_stack_prefixes \in { <<>>, << <<"dev">>, <<"prod", "-", "b">> >> }
    /\ desc_hash_to_stacks = <<>>
    /\ total_matched = 0
    /\ seen_stacks = <<>>

GroupIdle ==
    /\ ignore_string = None
    /\ contains_string = None
    /\ ignore_stack_prefixes = <<>>
    /\ desc_hash_to_stacks = <<>>
    /\ total_matched = 0
    /\ seen_stacks = <<>>

\* the ignore_string test that also filters on a string of length 0
SkipsOnIgnoreStringGiven(ignore, description) ==
    ignore # None /\ Contains(ignore, description)

\* if ignore_string and ignore_string in description: continue
SkipsOnIgnoreString(ignore, description) ==
    Truthy(ignore) /\ Contains(ignore, description)

\* if contains_string and contains_string not in template_str: continue
SkipsOnContainsString(contains, template_str) ==
    Truthy(contains) /\ ~Contains(contains, template_str)

\* if ignore_stack_prefixes and any(stack_name.startswith(prefix) ...): continue
SkipsOnPrefix(prefixes, stack_name) ==
    Truthy(prefixes) /\ \E i \in 1..Len(prefixes) : StartsWith(stack_name, prefixes[i])

\* stack.get('Description', "").strip()
DescriptionOf(stack) ==
    Strip(IF stack.Description = None THEN <<>> ELSE stack.Description)

\* desc_hash_to_stacks[key].append(item) on a defaultdict(list)
AppendTo(groups, key, item) ==
    [k \in DOMAIN groups \cup {key} |->
        IF k = key
        THEN Append(IF k \in DOMAIN groups THEN groups[k] ELSE <<>>, item)
        ELSE groups[k]]

\* one turn of the loop over the stacks of describe_stacks
ProcessStack ==
    /\ pc = "describe_stacks"
    /\ Len(seen_stacks) < MaxGroupStacks
    /\ \E stack \in Stacks :
       /\ \A i \in 1..Len(seen_stacks) : seen_stacks[i].stack.StackName # stack.StackName
       /\ LET stack_name == stack.StackName
              description == DescriptionOf(stack)
              template_str == get_template_body_string(stack.TemplateBody)
              template_hash == compute_template_hash(template_str)
              last_updated_str ==
                  IF stack.LastUpdatedTime # None
                  THEN strftime(stack.LastUpdatedTime) ELSE <<"never updated">>
              skipped_early ==
                  \/ SkipsOnPrefix(ignore_stack_prefixes, stack_name)
                  \/ ~stack_has_ecs_service(stack.ResourcePages)
                  \/ SkipsOnIgnoreString(ignore_string, description)
              skipped == skipped_early \/ SkipsOnContainsString(contains_string, template_str)
          IN /\ seen_stacks' =
                  Append(seen_stacks,
                         [stack |-> stack,
                          template_hash |-> IF skipped THEN None ELSE template_hash])
             /\ IF skipped
                THEN UNCHANGED <<desc_hash_to_stacks, total_matched>>
                ELSE /\ desc_hash_to_stacks' =
                          AppendTo(desc_hash_to_stacks, <<description, template_hash>>,
                                   <<stack_name, last_updated_str>>)
                     /\ total_matched' = total_matched + 1
    /\ UNCHANGED <<pc, ignore_string, contains_string, ignore_stack_prefixes>>
    /\ UNCHANGED <<normVars, unmanagedVars, costVars>>

\* the paginator is exhausted: return desc_hash_to_stacks, total_matched
ReturnGroups ==
    /\ pc = "describe_stacks"
    /\ pc' = "returned"
    /\ UNCHANGED <<groupVars, normVars, unmanagedVars, costVars>>

\* describe_stacks, list_stack_resources or get_template raises: no handler
GroupApiCallFails ==
    /\ pc = "describe_stacks"
    /\ Len(seen_stacks) < MaxGroupStacks
    /\ pc' = "aborted"
    /\ UNCHANGED <<groupVars, normVars, unmanagedVars, costVars>>

----------------------------------------------------------------------------
(* ecs_cost_analysis.py *)

MaxInstances == 3
MaxTasks == 2

\* the most results one list_tasks or list_container_instances call returns
\* when, as here, no maxResults is passed and no nextToken is followed (100 in
\* the ECS API, scaled down with the cluster)
PageSize == 2

\* the m5 table: cost in thousandths of a dollar per hour
instance_data ==
    [ large    |-> [cost |-> 96,  vcpus |-> 2, memory_gib |-> 8],
      xlarge   |-> [cost |-> 192, vcpus |-> 4, memory_gib |-> 16],
      x2large  |-> [cost |-> 384, vcpus |-> 8, memory_gib |-> 32],
      x4large  |-> [cost |-> 768, vcpus |-> 16, memory_gib |-> 64] ]

InstanceTypeArguments == {"large", "x4large", "nano"}

\* int(x["cpu"]), int(x["memory"]) on the strings the API gives
int(text) ==
    CASE text = "256" -> 256
      [] text = "512" -> 512
      [] text = "1024" -> 1024
      [] text = "2048" -> 2048

TaskShapes ==
    { [cpu |-> "256", memory |-> "2048"], [cpu |-> "1024", memory |-> "512"] }

\* registeredResources and remainingResources: [0] is CPU, [1] is MEMORY
InstanceShapes ==
    { [registeredResources |-> <<2048, 8192>>, remainingResources |-> <<0, 0>>],
      [registeredResources |-> <<2048, 8192>>, remainingResources |-> <<1024, 4096>>],
      [registeredResources |-> <<4096, 16384>>, remainingResources |-> <<4096, 16384>>],
      [registeredResources |-> <<4096, 16384>>, remainingResources |-> <<1024, 0>>] }

SeqsUpTo(S, n) == UNION { [1..k -> S] : k \in 0..n }

CostInit ==
    /\ instance_type \in InstanceTypeArguments
    /\ cluster_tasks \in SeqsUpTo(TaskShapes, MaxTasks)
    /\ cluster_instances \in SeqsUpTo(InstanceShapes, MaxInstances)
    /\ task_arns = <<>>
    /\ tasks = <<>>
    /\ largest_task = <<0, 0>>
    /\ unique_values = <<{}, {}>>
    /\ container_instance_arns = <<>>
    /\ container_instances = <<>>
    /\ total_cpu = 0 /\ total_memory = 0
    /\ used_cpu = 0 /\ used_memory = 0
    /\ excess_cpu = 0 /\ excess_memory = 0
    /\ savings = <<0, 0, 1>>

CostIdle ==
    /\ instance_type = ""
    /\ cluster_tasks = <<>>
    /\ cluster_instances = <<>>
    /\ task_arns = <<>>
    /\ tasks = <<>>
    /\ largest_task = <<0, 0>>
    /\ unique_values = <<{}, {}>>
    /\ container_instance_arns = <<>>
    /\ container_instances = <<>>
    /\ total_cpu = 0 /\ total_memory = 0
    /\ used_cpu = 0 /\ used_memory = 0
    /\ excess_cpu = 0 /\ excess_memory = 0
    /\ savings = <<0, 0, 1>>

\* one list_tasks / list_container_instances call: the ARNs of the first page
FirstPage(all) == [i \in 1..Min(PageSize, Len(all)) |-> i]

\* list_tasks(cluster_name)
list_tasks ==
    /\ pc = "list_tasks"
    /\ task_arns' = FirstPage(cluster_tasks)
    /\ pc' = "describe_tasks"
    /\ UNCHANGED <<instance_type, tasks, largest_task, unique_values,
                   container_instance_arns, container_instances,
                   total_cpu, total_memory, used_cpu, used_memory,
                   excess_cpu, excess_memory, savings,
                   cluster_tasks, cluster_instances>>
    /\ UNCHANGED <<normVars, unmanagedVars, groupVars>>

Max(S) == CHOOSE x \in S : \A y \in S : y <= x

\* describe_tasks, the largest tasks and the unique values; max() of no tasks
\* raises ValueError and an instance type outside the table KeyError
describe_tasks ==
    /\ pc = "describe_tasks"
    /\ LET described == [i \in 1..Len(task_arns) |-> cluster_tasks[task_arns[i]]]
           cpus == { int(t.cpu) : t \in Range(described) }
           memories == { int(t.memory) : t \in Range(described) }
       IN /\ tasks' = described
          /\ IF described = <<>> \/ instance_type \notin DOMAIN instance_data
             THEN /\ pc' = "aborted"
                  /\ UNCHANGED <<largest_task, unique_values>>
             ELSE /\ largest_task' = <<Max(cpus), Max(memories)>>
                  /\ unique_values' = <<cpus, memories>>
                  /\ pc' = "list_container_instances"
    /\ UNCHANGED <<instance_type, task_arns,
                   container_instance_arns, container_instances,
                   total_cpu, total_memory, used_cpu, used_memory,
                   excess_cpu, excess_memory, savings,
                   cluster_tasks, cluster_instances>>
    /\ UNCHANGED <<normVars, unmanagedVars, groupVars>>

\* list_container_instances(cluster_name)
list_container_instances ==
    /\ pc = "list_container_instances"
    /\ container_instance_arns' = FirstPage(cluster_instances)
    /\ pc' = "describe_container_instances"
    /\ UNCHANGED <<instance_type, task_arns, tasks, largest_task, unique_values,
                   container_instances,
                   total_cpu, total_memory, used_cpu, used_memory,
                   excess_cpu, excess_memory, savings,
                   cluster_tasks, cluster_instances>>
    /\ UNCHANGED <<normVars, unmanagedVars, groupVars>>

\* describe_container_instances(cluster_name, container_instance_arns)
describe_container_instances ==
    /\ pc = "describe_container_instances"
    /\ container_instances' =
          [i \in 1..Len(container_instance_arns) |->
              cluster_instances[container_instance_arns[i]]]
    /\ pc' = "calculate_current_usage"
    /\ UNCHANGED <<instance_type, task_arns, tasks, largest_task, unique_values,
                   container_instance_arns,
                   total_cpu, total_memory, used_cpu, used_memory,
                   excess_cpu, excess_memory, savings,
                   cluster_tasks, cluster_instances>>
    /\ UNCHANGED <<normVars, unmanagedVars, groupVars>>

\* the loop of calculate_current_usage, from instance i on: the four sums
RECURSIVE calculate_from(_, _, _)
calculate_from(instances, i, acc) ==
    IF i > Len(instances) THEN acc
    ELSE LET instance == instances[i] IN
         calculate_from(instances, i + 1,
            << acc[1] + instance.registeredResources[1],
               acc[2] + instance.registeredResources[2],
               acc[3] + (instance.registeredResources[1] - instance.remainingResources[1]),
               acc[4] + (instance.registeredResources[2] - instance.remainingResources[2]) >>)

calculate_current_usage(instances) == calculate_from(instances, 1, <<0, 0, 0, 0>>)

\* total_cpu, total_memory, used_cpu, used_memory = calculate_current_usage(...)
CalculateUsage ==
    /\ pc = "calculate_current_usage"
    /\ LET usage == calculate_current_usage(container_instances) IN
       /\ total_cpu' = usage[1]
       /\ total_memory' = usage[2]
       /\ used_cpu' = usage[3]
       /\ used_memory' = usage[4]
    /\ pc' = "excess"
    /\ UNCHANGED <<instance_type, task_arns, tasks, largest_task, unique_values,
                   container_instance_arns, container_instances,
                   excess_cpu, excess_memory, savings,
                   cluster_tasks, cluster_instances>>
    /\ UNCHANGED <<normVars, unmanagedVars, groupVars>>

\* the excess, the number of instances it is worth (the larger of the two
\* quotients, kept as numerator and denominator) and the cost figures:
\* savings = <<current cost, numerator, denominator>>, the potential saving
\* being numerator / denominator * cost
Excess ==
    /\ pc = "excess"
    /\ LET e_cpu == total_cpu - used_cpu
           e_memory == total_memory - used_memory
           cpu_units == instance_data[instance_type].vcpus * 1024
           memory_units == instance_data[instance_type].memory_gib * 1024
       IN /\ excess_cpu' = e_cpu
          /\ excess_memory' = e_memory
          /\ savings' =
                <<Len(container_instances) * instance_data[instance_type].cost>>
                \o (IF e_cpu * memory_units >= e_memory * cpu_units
                    THEN <<e_cpu, cpu_units>> ELSE <<e_memory, memory_units>>)
    /\ pc' = "cost_done"
    /\ UNCHANGED <<instance_type, task_arns, tasks, largest_task, unique_values,
                   container_instance_arns, container_instances,
                   total_cpu, total_memory, used_cpu, used_memory,
                   cluster_tasks, cluster_instances>>
    /\ UNCHANGED <<normVars, unmanagedVars, groupVars>>

\* an STS, Organizations or ECS call raises: main() has no handler
CostApiCallFails ==
    /\ pc \in {"list_tasks", "describe_tasks", "list_container_instances",
               "describe_container_instances"}
    /\ pc' = "aborted"
    /\ UNCHANGED <<costVars, normVars, unmanagedVars, groupVars>>

----------------------------------------------------------------------------
(* Specifications: one per program, the other programs' variables idle *)

InitNorm == pc = "norm_input" /\ NormInit /\ UnmanagedIdle /\ GroupIdle /\ CostIdle

NextNorm == Normalize \/ Renormalize

SpecNorm == InitNorm /\ [][NextNorm]_vars

InitUnmanaged ==
    pc = "list_services" /\ UnmanagedInit /\ NormIdle /\ GroupIdle /\ CostIdle

NextUnmanaged ==
    \/ ListServices
    \/ DescribeServices
    \/ FilterEc2
    \/ ListStacks
    \/ DescribeStackResources
    \/ DescribeStackResourcesFails
    \/ Report
    \/ ApiCallFails

SpecUnmanaged == InitUnmanaged /\ [][NextUnmanaged]_vars

\* the steps of main() are taken one after the other until it ends
FairSpecUnmanaged ==
    SpecUnmanaged
    /\ WF_vars(ListServices \/ DescribeServices \/ FilterEc2 \/ ListStacks
               \/ DescribeStackResources \/ DescribeStackResourcesFails \/ Report)

InitGroup ==
    pc = "describe_stacks" /\ GroupInit /\ NormIdle /\ UnmanagedIdle /\ CostIdle

NextGroup == ProcessStack \/ ReturnGroups \/ GroupApiCallFails

SpecGroup == InitGroup /\ [][NextGroup]_vars

InitCost ==
    pc = "list_tasks" /\ CostInit /\ NormIdle /\ UnmanagedIdle /\ GroupIdle

NextCost ==
    \/ list_tasks
    \/ describe_tasks
    \/ list_container_instances
    \/ describe_container_instances
    \/ CalculateUsage
    \/ Excess
    \/ CostApiCallFails

SpecCost == InitCost /\ [][NextCost]_vars

----------------------------------------------------------------------------
(* Properties of the normaliser *)

NormApplied == pc \in {"norm_once", "norm_twice"}

\* the sixth colon segment is service/<cluster>/<service>
IsLongForm(arn) ==
    LET parts == Split(arn, ":") IN
    /\ Len(parts) >= 6
    /\ LET rp == Split(parts[6], "/") IN Len(rp) = 3 /\ rp[1] = <<"service">>

\* arn:aws:ecs:<region>:<account>:service/<service>
IsShortFormArn(arn) ==
    LET parts == Split(arn, ":") IN
    /\ Len(parts) = 6
    /\ parts[1] = <<"arn">> /\ parts[2] = <<"aws">> /\ parts[3] = <<"ecs">>
    /\ LET rp == Split(parts[6], "/") IN Len(rp) = 2 /\ rp[1] = <<"service">>

IsMalformed(arn) ==
    LET parts == Split(arn, ":") IN
    \/ Len(parts) < 6
    \/ LET rp == Split(parts[6], "/") IN
       Len(rp) < 2 \/ rp[1] # <<"service">> \/ Len(rp) > 3

\* C1: every input with at least 6 colon segments whose sixth segment is
\* service/<cluster>/<service> is returned unchanged, and normalising a result
\* again with the same fallback changes nothing.
C1_LongFormReturnedUnchanged ==
    /\ (NormApplied /\ IsLongForm(service_arn)) => normalized = service_arn
    /\ pc = "norm_twice" => renormalized = normalized

\* C2: a short-form ARN arn:aws:ecs:<region>:<account>:service/<service> comes
\* back as arn:aws:ecs:<region>:<account>:service/<fallback>/<service>, with
\* region, account and service taken from the input.
C2_ShortFormGetsFallbackCluster ==
    (NormApplied /\ IsShortFormArn(service_arn)) =>
        LET parts == Split(service_arn, ":")
            rp == Split(parts[6], "/")
        IN normalized =
             Join(<< <<"arn">>, <<"aws">>, <<"ecs">>, parts[4], parts[5],
                     Join(<< <<"service">>, fallback_cluster_name, rp[2] >>, "/") >>,
                  ":")

C2_Witness ==
    /\ pc = "norm_once"
    /\ service_arn = <<"arn", ":", "aws", ":", "ecs", ":", "us-east-1", ":", "123",
                       ":", "service", "/", "Foo">>
    /\ fallback_cluster_name = <<"Bar">>
    /\ normalized = <<"arn", ":", "aws", ":", "ecs", ":", "us-east-1", ":", "123",
                      ":", "service", "/", "Bar", "/", "Foo">>

\* C3: a malformed input (fewer than 6 colon segments, a sixth segment with
\* fewer than 2 or more than 3 slash parts, or one not starting with
\* "service") is returned unchanged.
C3_MalformedPassesThrough ==
    (NormApplied /\ IsMalformed(service_arn)) => normalized = service_arn

C3_Witness ==
    /\ pc = "norm_once"
    /\ Len(Split(service_arn, ":")) = 6
    /\ LET rp == Split(Split(service_arn, ":")[6], "/") IN
       Len(rp) = 4 /\ rp[1] = <<"service">>
    /\ normalized = service_arn

----------------------------------------------------------------------------
(* Properties of the unmanaged-service flow *)

\* E: the normalised ARNs of the cluster's services whose launchType is EC2
EcsEc2Arns ==
    { normalize_ecs_service_arn(svc.serviceArn, cluster_name) :
        svc \in { x \in Range(ecs_services) : x.launchType = "EC2" } }

\* the normalised physical ids of the AWS::ECS::Service resources of the stacks
\* in vs
ServiceIdsOf(vs) ==
    { normalize_ecs_service_arn(r.PhysicalResourceId, cluster_name) :
        r \in { x \in UNION { v.StackResources : v \in vs } :
                  x.ResourceType = "AWS::ECS::Service" } }

\* M: over every stack that is not DELETE_COMPLETE
CfnManagedArns == ServiceIdsOf(Range(visited))

\* M over the stacks whose resources could be described
CfnDescribedArns == ServiceIdsOf({ v \in Range(visited) : ~v.failed })

ArnOfX(name) == ServiceArnOf("X", name, FALSE)

\* C4 as stated: the reported set is E \ M, with M taken over all stacks that
\* are not DELETE_COMPLETE.
C4_ReportIsEcsMinusAllCfn ==
    pc = "done" =>
        /\ unmanaged_ec2_services = EcsEc2Arns \ CfnManagedArns
        /\ unmanaged_ec2_services \subseteq EcsEc2Arns
        /\ unmanaged_ec2_services \cap CfnManagedArns = {}

\* C4 amended: the reported set is E \ M with M taken over the stacks that are not
\* DELETE_COMPLETE and whose describe_stack_resources call succeeded; it is a
\* subset of E, disjoint from that M, and M intersected with E gives the same.
C4_ReportIsEcsMinusDescribedCfn ==
    pc = "done" =>
        /\ unmanaged_ec2_services = EcsEc2Arns \ CfnDescribedArns
        /\ unmanaged_ec2_services \subseteq EcsEc2Arns
        /\ unmanaged_ec2_services \cap CfnDescribedArns = {}
        /\ cfn_ec2_services_in_cluster = CfnDescribedArns \cap EcsEc2Arns
        /\ unmanaged_ec2_services = EcsEc2Arns \ cfn_ec2_services_in_cluster

C4_Witness ==
    /\ pc = "done"
    /\ EcsEc2Arns = {ArnOfX("A"), ArnOfX("B"), ArnOfX("C")}
    /\ CfnDescribedArns = {ArnOfX("B"), ArnOfX("C")}
    /\ unmanaged_ec2_services = {ArnOfX("A")}

NotFailed(v) == ~v.failed

C5_StackLoopInvariant ==
    \* a failed describe_stack_resources never ends the run
    /\ pc = "aborted" => visited = <<>>
    \* failing stacks add nothing, the others add what they would add alone
    /\ cfn_ec2_services = ServiceIdsOf(Range(SelectSeq(visited, NotFailed)))
    \* every stack is visited, in order, whatever failed before it
    /\ Len(visited) = stack_i
    /\ \A i \in 1..Len(visited) : visited[i].StackId = stack_arns[i]
    /\ pc = "done" => Len(visited) = Len(stack_arns)

\* C5: whichever describe_stack_resources calls fail, the loop visits every
\* stack, a failing stack adds nothing to the managed set, the other stacks add
\* what they add without the failing ones, and the run reaches the report.
C5_DescribeFailureIsNotFatal ==
    /\ []C5_StackLoopInvariant
    /\ (pc = "cfn_resources") ~> (pc = "done")

C5_Witness ==
    /\ pc = "done"
    /\ Len(visited) = 2
    /\ visited[1].failed /\ visited[1].StackResources = {ServiceResource("X", "A", FALSE)}
    /\ ~visited[2].failed /\ visited[2].StackResources = {ServiceResource("X", "B", FALSE)}
    /\ cfn_ec2_services = {ArnOfX("B")}

\* C10: an EC2 service of the inspected cluster that is a resource of no stack
\* (other than DELETE_COMPLETE ones) is reported; a resource of another cluster
\* never hides it.
C10_UnmanagedServiceIsReported ==
    pc = "done" =>
        \A svc \in Range(ecs_services) :
            ( /\ svc.launchType = "EC2"
              /\ ~ \E v \in Range(visited) : \E r \in v.StackResources :
                     /\ r.ResourceType = "AWS::ECS::Service"
                     /\ r.cluster = "X"
                     /\ r.name = svc.name )
            => normalize_ecs_service_arn(svc.serviceArn, cluster_name)
                 \in unmanaged_ec2_services

----------------------------------------------------------------------------
(* Properties of template hashing and grouping *)

\* the keys and values of a dict
ItemsOfDict(items) == Range(items)

\* the keys and values of a JSON object text, whitespace and key order aside
ItemsOfJson(text) ==
    LET t == SelectSeq(text, LAMBDA x : x # " ")
        inner == SubSeq(t, 2, Len(t) - 1)
        members == IF inner = <<>> THEN <<>> ELSE Split(inner, ",")
    IN { <<m[2], m[5]>> : m \in Range(members) }

\* what a template body says
MeaningOf(template_body) ==
    IF template_body.type = "dict"
    THEN ItemsOfDict(template_body.value)
    ELSE ItemsOfJson(template_body.value)

Hashed(i) == seen_stacks[i].template_hash # None

\* the keys of the groups that list the stack of this name
GroupsOf(stack_name) ==
    { k \in DOMAIN desc_hash_to_stacks :
        \E n \in 1..Len(desc_hash_to_stacks[k]) :
            desc_hash_to_stacks[k][n][1] = stack_name }

\* the sum of f over S
RECURSIVE SumOver(_, _)
SumOver(S, f) ==
    IF S = {} THEN 0
    ELSE LET x == CHOOSE y \in S : TRUE IN f[x] + SumOver(S \ {x}, f)

\* how many entries of all the groups name the stack
EntriesOf(stack_name) ==
    SumOver(DOMAIN desc_hash_to_stacks,
            [k \in DOMAIN desc_hash_to_stacks |->
                Cardinality({ n \in 1..Len(desc_hash_to_stacks[k]) :
                                desc_hash_to_stacks[k][n][1] = stack_name })])

GroupSizes ==
    SumOver(DOMAIN desc_hash_to_stacks,
            [k \in DOMAIN desc_hash_to_stacks |-> Len(desc_hash_to_stacks[k])])

\* C6: a template hashed from its dict form and from a JSON string with the
\* same keys and values (any key order, any whitespace) gets the same digest.
C6_HashStableUnderReserialization ==
    \A i, j \in 1..Len(seen_stacks) :
        ( /\ Hashed(i) /\ Hashed(j)
          /\ seen_stacks[i].stack.TemplateBody.type = "dict"
          /\ seen_stacks[j].stack.TemplateBody.type = "str"
          /\ MeaningOf(seen_stacks[i].stack.TemplateBody)
               = MeaningOf(seen_stacks[j].stack.TemplateBody) )
        => seen_stacks[i].template_hash = seen_stacks[j].template_hash

\* C7: two stacks that pass the filters, with the same description and
\* semantically equal JSON templates, are in the same group.
C7_EqualTemplatesShareGroup ==
    \A i, j \in 1..Len(seen_stacks) :
        ( /\ Hashed(i) /\ Hashed(j)
          /\ seen_stacks[i].stack.Description = seen_stacks[j].stack.Description
          /\ MeaningOf(seen_stacks[i].stack.TemplateBody)
               = MeaningOf(seen_stacks[j].stack.TemplateBody) )
        => GroupsOf(seen_stacks[i].stack.StackName)
             \cap GroupsOf(seen_stacks[j].stack.StackName) # {}

\* whether an optional string counts as given: always unless it is None, or only
\* when it also has characters
Given(s, empty_counts) == s # None /\ (empty_counts \/ s # <<>>)

\* the filters as C8 states them
PassesFilters(stack, empty_counts) ==
    /\ \A p \in 1..Len(ignore_stack_prefixes) :
          ~StartsWith(stack.StackName, ignore_stack_prefixes[p])
    /\ \E p \in 1..Len(stack.ResourcePages) :
          "AWS::ECS::Service" \in Range(stack.ResourcePages[p])
    /\ Given(ignore_string, empty_counts) =>
          ~Contains(ignore_string, DescriptionOf(stack))
    /\ Given(contains_string, empty_counts) =>
          Contains(contains_string, get_template_body_string(stack.TemplateBody))

GroupedExactly(empty_counts) ==
    /\ \A i \in 1..Len(seen_stacks) :
          LET stack == seen_stacks[i].stack
              key == <<DescriptionOf(stack),
                       compute_template_hash(get_template_body_string(stack.TemplateBody))>>
          IN IF PassesFilters(stack, empty_counts)
             THEN /\ EntriesOf(stack.StackName) = 1
                  /\ GroupsOf(stack.StackName) = {key}
             ELSE EntriesOf(stack.StackName) = 0
    /\ total_matched = GroupSizes

----------------------------------------------------------------------------
(* Properties of the cost analysis *)

\* the sum of f[i] over i in 1..n
RECURSIVE SumTo(_, _)
SumTo(f, n) == IF n = 0 THEN 0 ELSE f[n] + SumTo(f, n - 1)

Registered(r) ==
    SumTo([i \in 1..Len(cluster_instances) |-> cluster_instances[i].registeredResources[r]],
          Len(cluster_instances))

Remaining(r) ==
    SumTo([i \in 1..Len(cluster_instances) |-> cluster_instances[i].remainingResources[r]],
          Len(cluster_instances))

\* C9: whatever the number of container instances of the cluster, the totals
\* are the sums of the registered values over all of them, the used figures the
\* sums of registered minus remaining, and the excess the sum of the remaining.
C9_TotalsCoverAllContainerInstances ==
    pc = "cost_done" =>
        /\ total_cpu = Registered(1)
        /\ total_memory = Registered(2)
        /\ used_cpu = Registered(1) - Remaining(1)
        /\ used_memory = Registered(2) - Remaining(2)
        /\ excess_cpu = Remaining(1)
        /\ excess_memory = Remaining(2)

====
